---- MODULE Spec2Model ----
(***************************************************************************)
(* State-machine model of the GetPixivNovel downloader.                    *)
(*   - PixivAuth (src/pixiv/auth.py): refresh-token login, expiry tracking *)
(*   - PixivAPI  (src/pixiv/api.py) : construction, app-api requests and   *)
(*     the two-endpoint text fetch get_novel_text                          *)
(* Tokens are numbered: the n-th token response of a run carries access    *)
(* token n and refresh token n; 0 stands for Python's None (access token)  *)
(* and for the configured refresh token.                                   *)
(***************************************************************************)
EXTENDS Integers, Sequences, FiniteSets, TLC

\* ------------------------------------------------------------------ bounds
MaxTime == 2
MaxRefresh == 2
\* texts handed to clean_text are built from at most MaxFrags fragments
MaxFrags == 3
\* the largest remote listing, the most listing calls of one command, and
\* the positions of a batch whose download may fail one by one
MaxTotal == 61
MaxCalls == 4
MaxFail == 2
\* series of up to MaxMembers members are listed in every order
MaxMembers == 3

\* --------------------------------------------------------- program constants
\* auth.py:126  "time.time() + token_data["expires_in"] - 300"
SAFETY_MARGIN == 300

\* downloader.py:162, 266, 376  "page_limit = 30"
page_limit == 30

None == 0
ConfiguredToken == 0

\* lifetimes (seconds) a token response may announce; chosen around the margin
\* so that expiry falls before, at and after the times the model reaches
ExpiresInChoices == {299, 302}
TickChoices == {1, 2}

TokenFields == {"access_token", "refresh_token", "expires_in", "user_id"}

\* Outcomes of the POST to the token endpoint (auth.py:103-111):
\*   neterr  - requests raises RequestException (network error or, through
\*             raise_for_status, a non-2xx status)
\*   badjson - response.json() raises
\*   json    - a JSON object holding the given subset of the consumed fields
TokenResponses ==
    {[kind |-> "neterr", fields |-> {}, expires_in |-> 0],
     [kind |-> "badjson", fields |-> {}, expires_in |-> 0]}
    \cup
    UNION {{[kind |-> "json", fields |-> f, expires_in |-> e] :
               e \in IF "expires_in" \in f THEN ExpiresInChoices ELSE {0}} :
           f \in SUBSET TokenFields}

\* the token endpoint fails, or answers with every field and a lifetime
\* that outlasts the margin
BasicTokenResponses ==
    {r \in TokenResponses :
        \/ r.kind = "neterr"
        \/ r.fields = TokenFields /\ r.expires_in = 302}

VARIABLES
    now,          \* time.time()
    logger,       \* whether the module-level logger is configured
    auth,         \* the PixivAuth object
    api_ready,    \* PixivAPI.__init__ has run
    reqLog,       \* history: refresh requests sent, in order
    expiry_src,   \* history: number of the response that set token_expiry_time
    expiry_plat,  \* history: issue time + expires_in of that response
    lastEnsure,   \* history: the most recent ensure_auth call
    lastOp,       \* history: the most recent operation and its outcome
    ct,           \* clean_text applied to a text, once and again
    bulk,         \* a bulk download command in progress
    files,        \* the text file and the cache JSON of each item on disk
    lastSave,     \* history: the most recent NovelDownloader.download_novel
    pnd           \* a PixivNovelDownloader.download_novel call in progress

vars == <<now, logger, auth, api_ready, reqLog, expiry_src, expiry_plat,
          lastEnsure, lastOp, ct, bulk, files, lastSave, pnd>>
itemVars == <<files, lastSave, pnd>>

\* ------------------------------------------------------------- PixivAuth

\* PixivAuth.__init__ (auth.py:41-44)
PixivAuthInit ==
    [access_token |-> None,
     refresh_token |-> ConfiguredToken,
     token_expiry_time |-> 0,
     user_id |-> None,
     Authorization |-> None]

\* A plausible slip: the safety margin is left out of the recorded expiry
loginNoMargin(a, r, n, t) ==
    LET full == r.kind = "json" /\ r.fields = TokenFields
    IN  IF full
        THEN [auth |-> [access_token |-> n, refresh_token |-> n,
                        token_expiry_time |-> t + r.expires_in,
                        user_id |-> n, Authorization |-> n],
              ret |-> TRUE, set_expiry |-> TRUE]
        ELSE [auth |-> a, ret |-> FALSE, set_expiry |-> FALSE]

\* PixivAuth.login (auth.py:60-158).  a: the object, r: the token response,
\* n: the number of this response, t: time.time() at line 126.
\* The assignments of lines 117-134 run in order and the first missing field
\* raises KeyError, which line 154 turns into "return False" with the
\* assignments made so far kept.
login(a, r, n, t) ==
    LET has(f) == r.kind = "json" /\ f \in r.fields
        s1 == IF has("access_token")
              THEN [a EXCEPT !.access_token = n] ELSE a
        ok1 == has("access_token")
        s2 == IF ok1 /\ has("refresh_token")
              THEN [s1 EXCEPT !.refresh_token = n] ELSE s1
        ok2 == ok1 /\ has("refresh_token")
        s3 == IF ok2 /\ has("expires_in")
              THEN [s2 EXCEPT !.token_expiry_time = t + r.expires_in - SAFETY_MARGIN]
              ELSE s2
        ok3 == ok2 /\ has("expires_in")
        s4 == IF ok3 /\ has("user_id")
              THEN [s3 EXCEPT !.user_id = n, !.Authorization = s3.access_token]
              ELSE s3
        ok4 == ok3 /\ has("user_id")
    IN  [auth |-> s4, ret |-> ok4, set_expiry |-> ok3]

\* Plausible slips in the expiry test: the boundary excluded, and the
\* comparison turned round
NeedsRefreshStrict(a, t) ==
    \/ a.access_token = None
    \/ t > a.token_expiry_time
NeedsRefreshReversed(a, t) ==
    \/ a.access_token = None
    \/ t <= a.token_expiry_time

\* The condition under which ensure_auth calls login (auth.py:171, 175)
NeedsRefresh(a, t) ==
    \/ a.access_token = None
    \/ t >= a.token_expiry_time

\* PixivAuth.ensure_auth (auth.py:160-184)
ensure_auth(a, r, n, t) ==
    IF NeedsRefresh(a, t)
    THEN LET l == login(a, r, n, t)
         IN [auth |-> l.auth, ret |-> l.ret, refreshed |-> TRUE,
             set_expiry |-> l.set_expiry]
    ELSE [auth |-> a, ret |-> TRUE, refreshed |-> FALSE, set_expiry |-> FALSE]

\* ------------------------------------------------------ get_novel_text
\* Text is a sequence of one-character strings.
NEWPAGE == <<"[", "n", "e", "w", "p", "a", "g", "e", "]">>
PAGEBREAK == <<"\n", "\n">>

\* the marker split round another marker: "[new" and "page]"
NewpageHead == SubSeq(NEWPAGE, 1, 4)
NewpageTail == SubSeq(NEWPAGE, 5, 9)

Texts == {<<>>, <<"a">> \o NEWPAGE \o <<"b">>,
          NewpageHead \o NEWPAGE \o NewpageTail}

\* A JSON value found under body.content: a string, null, a non-empty list
\* (truthy, has a length, is not a string) or a non-zero number (truthy, has
\* no length).
Str(s) == [kind |-> "str", s |-> s]
EmptyStr == Str(<<>>)
JsonNull == [kind |-> "null", s |-> <<>>]
JsonList == [kind |-> "list", s |-> <<>>]
JsonNum == [kind |-> "num", s |-> <<>>]
ContentValues == {Str(s) : s \in Texts} \cup {JsonNull, JsonList, JsonNum}

Truthy(v) == \/ v.kind = "str" /\ v.s # <<>>
             \/ v.kind \in {"list", "num"}
HasLen(v) == v.kind \in {"str", "list"}

\* re.sub(r'\[newpage\]', '\n\n', text) (api.py:117): leftmost,
\* non-overlapping replacement of the marker
RECURSIVE ReplaceNewpage(_)
ReplaceNewpage(s) ==
    IF Len(s) < Len(NEWPAGE) THEN s
    ELSE IF SubSeq(s, 1, Len(NEWPAGE)) = NEWPAGE
         THEN PAGEBREAK \o ReplaceNewpage(SubSeq(s, Len(NEWPAGE) + 1, Len(s)))
         ELSE <<s[1]>> \o ReplaceNewpage(Tail(s))

\* A plausible slip: the marker is removed instead of being replaced
RECURSIVE DeleteNewpage(_)
DeleteNewpage(s) ==
    IF Len(s) < Len(NEWPAGE) THEN s
    ELSE IF SubSeq(s, 1, Len(NEWPAGE)) = NEWPAGE
         THEN DeleteNewpage(SubSeq(s, Len(NEWPAGE) + 1, Len(s)))
         ELSE <<s[1]>> \o DeleteNewpage(Tail(s))
clean_text_delete(v) ==
    IF ~Truthy(v) THEN [raised |-> FALSE, value |-> v]
    ELSE IF v.kind # "str" THEN [raised |-> TRUE, value |-> v]
    ELSE [raised |-> FALSE, value |-> Str(DeleteNewpage(v.s))]

\* A plausible slip: the text is handed on without the replacement
clean_text_skip(v) ==
    IF ~Truthy(v) THEN [raised |-> FALSE, value |-> v]
    ELSE IF v.kind # "str" THEN [raised |-> TRUE, value |-> v]
    ELSE [raised |-> FALSE, value |-> v]

\* clean_text (api.py:113-118): a falsy value is returned as it is, re.sub
\* raises TypeError on a value that is not a string
clean_text(v) ==
    IF ~Truthy(v) THEN [raised |-> FALSE, value |-> v]
    ELSE IF v.kind # "str" THEN [raised |-> TRUE, value |-> v]
    ELSE [raised |-> FALSE, value |-> Str(ReplaceNewpage(v.s))]

\* What one of the two www.pixiv.net/ajax endpoints answers:
\*   http_error - requests raises or raise_for_status raises
\*   not_json   - response.json() raises
\*   json       - a JSON document: an object or not; its "error" member
\*                (true, false, missing); its "body" member (missing, null,
\*                an object); body.content (missing or a value)
NoResponse == [kind |-> "none", is_object |-> FALSE, error |-> "missing",
               body |-> "missing", has_content |-> FALSE, content |-> EmptyStr]
Envelope(err, body, hc, c) ==
    [kind |-> "json", is_object |-> TRUE, error |-> err, body |-> body,
     has_content |-> hc, content |-> c]
EndpointOutcomes ==
    {[NoResponse EXCEPT !.kind = "http_error"],
     [NoResponse EXCEPT !.kind = "not_json"],
     [NoResponse EXCEPT !.kind = "json"],
     Envelope("false", "missing", FALSE, EmptyStr),
     Envelope("false", "null", FALSE, EmptyStr),
     Envelope("false", "object", FALSE, EmptyStr),
     Envelope("true", "object", TRUE, Str(<<"a">>)),
     Envelope("missing", "object", TRUE, Str(<<"a">>))}
    \cup {Envelope("false", "object", TRUE, c) : c \in ContentValues}

BasicOutcomes ==
    {[NoResponse EXCEPT !.kind = "http_error"],
     Envelope("false", "object", FALSE, EmptyStr),
     Envelope("false", "object", TRUE, Str(<<"a">>))}

\* extract_from_api_json (api.py:157-195): the content value, or "" when the
\* envelope reports an error, has no content, or reading it raises
extract_from_api_json(j) ==
    IF ~j.is_object THEN EmptyStr                  \* .get raises, line 192
    ELSE IF j.error # "false" THEN EmptyStr        \* get("error", True)
    ELSE IF j.body = "null" THEN EmptyStr          \* "content" in None raises
    ELSE IF j.body = "object" /\ j.has_content THEN j.content
    ELSE EmptyStr

\* The test of api.py:268 on the content endpoint's JSON; "raise" when
\* evaluating it raises (caught at line 275)
SecondaryHasContent(j) ==
    IF ~j.is_object THEN "raise"
    ELSE IF j.error # "false" THEN "no"
    ELSE IF j.body = "null" THEN "raise"
    ELSE IF j.body = "object" /\ j.has_content THEN "yes"
    ELSE "no"

TextResult(raised, v, calls) ==
    [raised |-> raised, has_text |-> ~raised, text |-> IF raised THEN EmptyStr ELSE v,
     calls |-> calls \o <<"sleep">>]

\* Lines 285-306: reached when no return statement has run.  extracted is
\* the value of extracted_text.  clean_text raising at line 289 is caught at
\* line 296, and raising again at line 303 leaves the function.
Fallthrough(extracted, calls) ==
    IF Truthy(extracted)
    THEN IF clean_text(extracted).raised
         THEN TextResult(TRUE, EmptyStr, calls)
         ELSE TextResult(FALSE, clean_text(extracted).value, calls)
    ELSE TextResult(FALSE, EmptyStr, calls)

\* Lines 246-277: the content-only endpoint
SecondaryStep(q, log, calls) ==
    LET c2 == calls \o <<"secondary">>
    IN  IF q.kind # "json" THEN Fallthrough(EmptyStr, c2)
        ELSE IF SecondaryHasContent(q) # "yes" THEN Fallthrough(EmptyStr, c2)
        ELSE IF log /\ ~HasLen(q.content)
             THEN Fallthrough(EmptyStr, c2)            \* len() raises, line 271
        ELSE IF clean_text(q.content).raised
             THEN Fallthrough(q.content, c2)           \* line 273 has run
        ELSE TextResult(FALSE, clean_text(q.content).value, c2)

\* A plausible slip: the content endpoint is asked whenever the primary
\* answered with JSON, text or no text
AsksSecondaryAlways(p) == p.kind = "json"

\* The else branch of line 246 is taken: the primary endpoint answered with
\* JSON from which no truthy text was extracted (line 240)
AsksSecondary(p) == p.kind = "json" /\ ~Truthy(extract_from_api_json(p))

\* Lines 216-245: the primary endpoint
PrimaryStep(p, q, log) ==
    LET c1 == <<"primary">>
        t == extract_from_api_json(p)
    IN  IF p.kind # "json" THEN Fallthrough(EmptyStr, c1)
        ELSE IF AsksSecondary(p) THEN SecondaryStep(q, log, c1)
        ELSE IF log /\ ~HasLen(t)
             THEN Fallthrough(EmptyStr, c1)            \* len() raises, line 242
        ELSE IF clean_text(t).raised
             THEN Fallthrough(t, c1)                   \* line 244 has run
        ELSE TextResult(FALSE, clean_text(t).value, c1)

\* get_novel_text (api.py:99-309).  auth_ok: get_auth_headers at line 209
\* returned; when it raises, line 296 catches and line 306 returns "".
get_novel_text(auth_ok, p, q, log) ==
    IF ~auth_ok THEN TextResult(FALSE, EmptyStr, <<>>)
    ELSE PrimaryStep(p, q, log)

\* ------------------------------------------------------------- history
NoEnsure == [called |-> FALSE, tok_none |-> FALSE, at |-> 0, expiry |-> 0,
             refreshed |-> FALSE, ret |-> FALSE]
\* bearer, cookie: the Authorization value and the PHPSESSID cookie of the
\* request sent to app-api; www_bearer, www_cookie: those of the requests
\* sent to www.pixiv.net/ajax.  None: no Authorization header; Absent: no
\* cookie (0 is the configured refresh token).
Absent == -1
NoOp == [op |-> "none", refresh_failed |-> FALSE, raised |-> FALSE,
         bearer |-> None, cookie |-> Absent,
         www_bearer |-> None, www_cookie |-> Absent,
         has_text |-> FALSE, text |-> EmptyStr, calls |-> <<>>,
         primary |-> NoResponse, secondary |-> NoResponse]

\* The disk as NovelDownloader finds it: per item the content of its text
\* file (NoFile, the body text of the record written, or Partial after a
\* write that broke off) and the state of its cache JSON
ItemIds == {1, 2}
NoFile == [kind |-> "absent", s |-> <<>>]
Partial == [kind |-> "partial", s |-> <<>>]
NoFiles == [i \in ItemIds |-> [txt |-> NoFile, cache |-> "absent"]]
\* json_write, txt_write: none (not reached), ok, open_fails (open raises,
\* the file is as before), write_fails (the write raises after open has
\* truncated the file)
NoSave == [called |-> FALSE, id |-> 0, overwrite |-> FALSE, detail_ok |-> FALSE,
           text_raised |-> FALSE, text |-> EmptyStr, json_write |-> "none",
           txt_write |-> "none", raised |-> FALSE, returned |-> FALSE,
           before |-> NoFiles]
\* pc: idle, content (in the retry loop), got (get_novel_content returned),
\*     done, raised.  tries, waits are history: the outcome of each call of
\* get_novel_text and the seconds slept after it; write: how writing the
\* output file went (none: not reached).
NoPnd == [pc |-> "idle", id |-> 0, attempt |-> 0, tries |-> <<>>,
          waits |-> <<>>, content |-> EmptyStr, write |-> "none"]

\* no text has been handed to clean_text; no bulk command is running
NoClean == [stage |-> "none", input |-> EmptyStr, once |-> EmptyStr,
            twice |-> EmptyStr]
\* limit=None (downloader.py:146)
NoLimit == -1
\* pc: idle, listing (in the while loop), listed (the loop is left),
\*     downloading (in the for loop), done (returned), raised.
\* pages, seen, kept, attempts, outcomes are history: the listing calls
\* made, the items they returned, the items held when a listing call
\* raised, the items handed to download_novel and whether each succeeded.
\* members, member_calls, details, dirs, index_written are history too: the
\* membership the series endpoint answered and the number of requests sent
\* to it, the items asked of /v2/novel/detail, the download_dir under which
\* each file was written, and whether the series index was written.
NoBulk == [pc |-> "idle", cmd |-> "none", total |-> 0, limit |-> NoLimit,
           offset |-> 0, current_offset |-> 0, all_novels |-> <<>>,
           download_dir |-> "base", fails |-> {},
           downloaded_paths |-> <<>>, failed_count |-> 0,
           pages |-> <<>>, seen |-> <<>>, kept |-> <<>>,
           attempts |-> <<>>, outcomes |-> <<>>,
           members |-> <<>>, member_calls |-> 0, details |-> <<>>,
           dirs |-> <<>>, index_written |-> FALSE]

\* Bookkeeping shared by every action that runs ensure_auth: e is the result
\* of ensure_auth(auth, r, n, now) from the current state.
Authenticate(e, r) ==
    /\ auth' = e.auth
    /\ reqLog' = IF e.refreshed
                 THEN Append(reqLog, [rt |-> auth.refresh_token, ok |-> e.ret,
                                      tok |-> auth.access_token])
                 ELSE reqLog
    /\ expiry_src' = IF e.set_expiry THEN Len(reqLog) + 1 ELSE expiry_src
    /\ expiry_plat' = IF e.set_expiry THEN now + r.expires_in ELSE expiry_plat
    /\ lastEnsure' = [called |-> TRUE, tok_none |-> auth.access_token = None,
                      at |-> now, expiry |-> auth.token_expiry_time,
                      refreshed |-> e.refreshed, ret |-> e.ret]

\* The response is drawn only when a request is sent; the number of refresh
\* requests of a run is capped by MaxRefresh.
CanCall == NeedsRefresh(auth, now) => Len(reqLog) < MaxRefresh
Responses(TR) == IF NeedsRefresh(auth, now) THEN TR
                 ELSE {[kind |-> "neterr", fields |-> {}, expires_in |-> 0]}

\* ------------------------------------------------------------- actions
\* The state main() builds (main.py:143): the modules of the package bound
\* utils.logger when they were imported (api.py:9, auth.py:11), before
\* setup_logging ran (main.py:102), so their logger is None.
Init ==
    /\ now = 0
    /\ logger = FALSE
    /\ auth = PixivAuthInit
    /\ api_ready = FALSE
    /\ reqLog = <<>>
    /\ expiry_src = 0
    /\ expiry_plat = 0
    /\ lastEnsure = NoEnsure
    /\ lastOp = NoOp
    /\ ct = NoClean
    /\ bulk = NoBulk
    /\ files = NoFiles
    /\ lastSave = NoSave
    /\ pnd = NoPnd

\* time passes between calls
Tick ==
    \E d \in TickChoices :
        /\ now + d <= MaxTime
        /\ now' = now + d
        /\ UNCHANGED <<logger, auth, api_ready, reqLog, expiry_src,
                       expiry_plat, lastEnsure, lastOp, ct, bulk, itemVars>>

\* a direct call of PixivAuth.ensure_auth (auth.py:160-184)
EnsureAuth ==
    /\ CanCall
    /\ \E r \in Responses(TokenResponses) :
         LET e == ensure_auth(auth, r, Len(reqLog) + 1, now)
         IN /\ Authenticate(e, r)
            /\ lastOp' = [NoOp EXCEPT !.op = "ensure_auth",
                          !.refresh_failed = e.refreshed /\ ~e.ret,
                          !.calls = IF e.refreshed THEN <<"token">> ELSE <<>>]
    /\ UNCHANGED <<now, logger, api_ready, ct, bulk, itemVars>>

\* PixivAuth.get_auth_headers (auth.py:186-198): raises when ensure_auth
\* returns False, otherwise returns self.headers
GetAuthHeaders ==
    /\ CanCall
    /\ \E r \in Responses(TokenResponses) :
         LET e == ensure_auth(auth, r, Len(reqLog) + 1, now)
         IN /\ Authenticate(e, r)
            /\ lastOp' = [NoOp EXCEPT !.op = "get_auth_headers",
                          !.refresh_failed = e.refreshed /\ ~e.ret,
                          !.raised = ~e.ret,
                          !.bearer = IF e.ret THEN e.auth.Authorization ELSE None,
                          !.calls = IF e.refreshed THEN <<"token">> ELSE <<>>]
    /\ UNCHANGED <<now, logger, api_ready, ct, bulk, itemVars>>

\* PixivAPI.__init__ (api.py:22-32): runs ensure_auth and ignores its result
ApiInitCall(TR) ==
    /\ ~api_ready
    /\ CanCall
    /\ \E r \in Responses(TR) :
         LET e == ensure_auth(auth, r, Len(reqLog) + 1, now)
         IN /\ Authenticate(e, r)
            /\ lastOp' = [NoOp EXCEPT !.op = "api_init",
                          !.refresh_failed = e.refreshed /\ ~e.ret,
                          !.calls = IF e.refreshed THEN <<"token">> ELSE <<>>]
    /\ api_ready' = TRUE
    /\ UNCHANGED <<now, logger, ct, bulk, itemVars>>

ApiInit == ApiInitCall(TokenResponses)

\* PixivAPI._request (api.py:34-69) as used by get_novel_detail (api.py:71-97)
\* and the listing calls (api.py:311-448): get_auth_headers raises out of the
\* call; otherwise the request is sent to app-api with the stored headers and
\* a failing response raises, a good one is followed by random_sleep.
AppApiOps == {"get_novel_detail", "get_user_novels"}

Request ==
    /\ api_ready
    /\ CanCall
    /\ \E r \in Responses(TokenResponses), name \in AppApiOps, good \in BOOLEAN :
         LET e == ensure_auth(auth, r, Len(reqLog) + 1, now)
             pre == IF e.refreshed THEN <<"token">> ELSE <<>>
         IN /\ Authenticate(e, r)
            /\ lastOp' = [NoOp EXCEPT !.op = name,
                          !.refresh_failed = e.refreshed /\ ~e.ret,
                          !.raised = ~e.ret \/ ~good,
                          !.bearer = IF e.ret THEN e.auth.Authorization ELSE None,
                          !.calls = IF ~e.ret THEN pre
                                    ELSE IF good THEN pre \o <<"app-api", "sleep">>
                                    ELSE pre \o <<"app-api">>]
    /\ UNCHANGED <<now, logger, api_ready, ct, bulk, itemVars>>

\* A call of PixivAPI.get_novel_text (api.py:99-309) with the token
\* response drawn from TR and the answers of the two endpoints from EO
NovelTextCall(TR, EO) ==
    /\ api_ready
    /\ CanCall
    /\ \E r \in Responses(TR) :
         LET e == ensure_auth(auth, r, Len(reqLog) + 1, now)
             pre == IF e.refreshed THEN <<"token">> ELSE <<>>
         IN /\ Authenticate(e, r)
            /\ \E p \in IF e.ret THEN EO ELSE {NoResponse} :
               \E q \in IF e.ret /\ AsksSecondary(p) THEN EO ELSE {NoResponse} :
                 LET g == get_novel_text(e.ret, p, q, logger)
                 IN lastOp' = [NoOp EXCEPT !.op = "get_novel_text",
                               !.refresh_failed = e.refreshed /\ ~e.ret,
                               !.raised = g.raised,
                               !.www_bearer = IF e.ret THEN e.auth.Authorization
                                              ELSE None,
                               !.www_cookie = IF e.ret THEN e.auth.refresh_token
                                              ELSE Absent,
                               !.has_text = g.has_text,
                               !.text = g.text,
                               !.calls = pre \o g.calls,
                               !.primary = p,
                               !.secondary = q]
    /\ UNCHANGED <<now, logger, api_ready, ct, bulk, itemVars>>

\* get_novel_text among the operations that need authentication: every token
\* response, three representative endpoint answers
GetNovelText == NovelTextCall(TokenResponses, BasicOutcomes)

\* get_novel_text against every endpoint answer: the token endpoint either
\* fails or answers completely
FetchText == NovelTextCall(BasicTokenResponses, EndpointOutcomes)

\* PixivAPI.__init__ for the text-fetch specification
ApiInitText == ApiInitCall(BasicTokenResponses)

\* get_series_details (api.py:450-516) and get_series_novels
\* (api.py:518-633): one GET to www.pixiv.net/ajax with browser headers and
\* the stored refresh token as PHPSESSID cookie; ensure_auth is not called.
\* A failing answer raises; get_series_details sleeps before it returns.
SeriesOps == {"get_series_details", "get_series_novels"}

SeriesRequest ==
    /\ api_ready
    /\ \E name \in SeriesOps, good \in BOOLEAN :
         lastOp' = [NoOp EXCEPT !.op = name,
                    !.raised = ~good,
                    !.www_cookie = auth.refresh_token,
                    !.calls = IF good /\ name = "get_series_details"
                              THEN <<"www", "sleep">> ELSE <<"www">>]
    /\ UNCHANGED <<now, logger, auth, api_ready, reqLog, expiry_src,
                   expiry_plat, lastEnsure, ct, bulk, itemVars>>

Next ==
    \/ Tick
    \/ EnsureAuth
    \/ GetAuthHeaders
    \/ ApiInit
    \/ Request
    \/ GetNovelText
    \/ SeriesRequest

Spec == Init /\ [][Next]_vars

\* The package used as a library: the logger may have been configured
\* before the modules were imported
InitText ==
    /\ now = 0
    /\ logger \in BOOLEAN
    /\ auth = PixivAuthInit
    /\ api_ready = FALSE
    /\ reqLog = <<>>
    /\ expiry_src = 0
    /\ expiry_plat = 0
    /\ lastEnsure = NoEnsure
    /\ lastOp = NoOp
    /\ ct = NoClean
    /\ bulk = NoBulk
    /\ files = NoFiles
    /\ lastSave = NoSave
    /\ pnd = NoPnd

NextText ==
    \/ Tick
    \/ ApiInitText
    \/ FetchText

SpecText == InitText /\ [][NextText]_vars

\* ------------------------------------------------------------ clean_text
authVars == <<now, logger, auth, api_ready, reqLog, expiry_src, expiry_plat,
              lastEnsure, lastOp>>

\* Texts put together from whole markers, the two halves of a marker,
\* a letter and a line break
Fragments == {NEWPAGE, NewpageHead, NewpageTail, <<"a">>, <<"\n">>}
RECURSIVE FragTexts(_)
FragTexts(n) ==
    IF n = 0 THEN {<<>>}
    ELSE LET prev == FragTexts(n - 1)
         IN prev \cup {t \o f : t \in prev, f \in Fragments}
CleanInputs == FragTexts(MaxFrags)

InitClean ==
    /\ now = 0
    /\ logger = FALSE
    /\ auth = PixivAuthInit
    /\ api_ready = FALSE
    /\ reqLog = <<>>
    /\ expiry_src = 0
    /\ expiry_plat = 0
    /\ lastEnsure = NoEnsure
    /\ lastOp = NoOp
    /\ ct \in {[NoClean EXCEPT !.stage = "input", !.input = Str(t)] :
                  t \in CleanInputs}
    /\ bulk = NoBulk
    /\ files = NoFiles
    /\ lastSave = NoSave
    /\ pnd = NoPnd

\* clean_text (api.py:113-118) applied to the text
CleanOnce ==
    /\ ct.stage = "input"
    /\ ~clean_text(ct.input).raised
    /\ ct' = [ct EXCEPT !.stage = "once", !.once = clean_text(ct.input).value]
    /\ UNCHANGED <<authVars, bulk, itemVars>>

\* clean_text applied to its own result
CleanTwice ==
    /\ ct.stage = "once"
    /\ ~clean_text(ct.once).raised
    /\ ct' = [ct EXCEPT !.stage = "twice", !.twice = clean_text(ct.once).value]
    /\ UNCHANGED <<authVars, bulk, itemVars>>

NextClean ==
    \/ CleanOnce
    \/ CleanTwice

SpecClean == InitClean /\ [][NextClean]_vars

\* ----------------------------------------------------- bulk downloads
PagedCommands == {"download_user_novels", "download_bookmarks",
                  "search_and_download"}

\* sizes of the remote listing: empty, one item, a short page, one item
\* either side of a full page, a page and a half, two pages and more
Totals == {0, 1, 10, page_limit - 1, page_limit, page_limit + 1, 45,
           MaxTotal - 1, MaxTotal}
LimitChoices == {NoLimit, 0, page_limit, 40}
OffsetChoices == {0, 1, page_limit + 1}
\* The series_content endpoint is paged by offset (api.py:524-539): one
\* request is answered with at most SeriesPageSize members.
SeriesPageSize == 30
SeriesSizes == {0, 1, MaxMembers, 10, SeriesPageSize + 1}
\* the member with order index k has id ItemId(k)
ItemId(k) == 100 - k
\* the entries 1..m of a series in every order (m <= MaxMembers), or in
\* ascending and in descending order
Orderings(m) ==
    IF m <= MaxMembers
    THEN {f \in [1..m -> 1..m] : \A i, j \in 1..m : i # j => f[i] # f[j]}
    ELSE {[i \in 1..m |-> i], [i \in 1..m |-> m + 1 - i]}
\* what a request with offset=0 is answered for a series of n members:
\* entries with id and series.contentOrder
SeriesListings(n) ==
    LET m == IF n < SeriesPageSize THEN n ELSE SeriesPageSize
    IN  {[i \in 1..m |-> [id |-> ItemId(f[i]), order |-> f[i]]] :
            f \in Orderings(m)}

\* api.py:605  "processed_novels.sort(key=lambda x: x["series"]["order"])":
\* a stable sort, here by insertion
RECURSIVE SortByOrder(_)
SortByOrder(entries) ==
    IF entries = <<>> THEN <<>>
    ELSE LET n == Len(entries)
             last == entries[n]
             rest == SortByOrder(SubSeq(entries, 1, n - 1))
             k == Cardinality({i \in 1..Len(rest) : rest[i].order <= last.order})
         IN SubSeq(rest, 1, k) \o <<last>> \o SubSeq(rest, k + 1, Len(rest))

\* A plausible slip: the entries are handed on in listing order
get_series_novels_unsorted(listing) == listing

\* get_series_novels (api.py:518-633) on an answer that parses: the sorted
\* entries; download_series takes their ids (downloader.py:656-657)
get_series_novels(listing) == SortByOrder(listing)

\* Plausible slip: download_dir is left pointing at the series directory
KeepDir(d) == d

\* downloader.py:701-703  "finally: self.download_dir = original_dir"
RestoreDir(d) == "base"
\* which positions of the batch fail to download: any of the first MaxFail,
\* or every one
FailChoices == (SUBSET (1..MaxFail)) \cup {1..MaxTotal}

\* The listing endpoint holds items 1..total; a call with limit=page_limit
\* and offset=off answers the items off+1 .. off+page_limit that exist
\* (api.py:311-448 hand the "novels" list of the answer through).
ListingPage(total, off) ==
    LET last == IF off + page_limit < total THEN off + page_limit ELSE total
        n == IF last > off THEN last - off ELSE 0
    IN  [i \in 1..n |-> off + i]

\* A plausible slip: the page is appended whole although the limit is nearer
ClipPageNone(novels, remaining) == novels

\* downloader.py:195-197  "novels = novels[:remaining]"
ClipPage(novels, remaining) ==
    IF remaining < Len(novels) THEN SubSeq(novels, 1, remaining) ELSE novels

\* A plausible slip: a page one item short of full does not end the loop
ShortPageOffByOne(n) == n < page_limit - 1

\* downloader.py:207  "if len(novels) < page_limit: break"
ShortPage(n) == n < page_limit

\* Plausible slips: the cursor is left where it was; the cursor moves one
\* position less than the number of items appended
AdvanceCursorStuck(off, n) == off
AdvanceCursorOverlap(off, n) == off + n - 1

\* downloader.py:204  "current_offset += len(novels)"
AdvanceCursor(off, n) == off + n

\* A plausible slip: the handler lets the error leave the command
OnListingErrorRaise(b, page) ==
    [b EXCEPT !.pc = "raised",
              !.pages = Append(b.pages, [page EXCEPT !.raised = TRUE])]

\* downloader.py:213-216: the except clause logs and leaves the loop
OnListingError(b, page) ==
    [b EXCEPT !.pc = "listed",
              !.pages = Append(b.pages, [page EXCEPT !.raised = TRUE]),
              !.kept = b.all_novels]

\* One iteration of the while loop (downloader.py:171-216, 277-329,
\* 385-437).  raises: the listing call, or reading its answer, raises.
PageStep(b, raises) ==
    LET page == [offset |-> b.current_offset, size |-> 0, appended |-> 0,
                 clipped |-> FALSE, raised |-> FALSE]
        novels == ListingPage(b.total, b.current_offset)
        got == [page EXCEPT !.size = Len(novels)]
        remaining == b.limit - Len(b.all_novels)
        part == IF b.limit # NoLimit THEN ClipPage(novels, remaining)
                ELSE novels
    IN  IF raises THEN OnListingError(b, page)
        ELSE IF novels = <<>>                                   \* line 178
             THEN [b EXCEPT !.pc = "listed", !.pages = Append(b.pages, got)]
        ELSE IF b.limit # NoLimit /\ remaining <= 0             \* line 192
             THEN [b EXCEPT !.pc = "listed", !.pages = Append(b.pages, got),
                            !.seen = b.seen \o novels]
        ELSE [b EXCEPT
                !.pc = IF ShortPage(Len(part)) THEN "listed" ELSE "listing",
                !.all_novels = b.all_novels \o part,
                !.current_offset = AdvanceCursor(b.current_offset, Len(part)),
                !.pages = Append(b.pages,
                                 [got EXCEPT !.appended = Len(part),
                                             !.clipped = Len(part) < Len(novels)]),
                !.seen = b.seen \o novels]

\* A plausible slip: a failing item ends the batch
ItemStepAbort(b, ok) ==
    LET i == Len(b.attempts) + 1
        tried == [b EXCEPT !.attempts = Append(b.attempts, b.all_novels[i]),
                           !.outcomes = Append(b.outcomes, ok),
                           !.details = Append(b.details, b.all_novels[i]),
                           !.dirs = IF ok THEN Append(b.dirs, b.download_dir)
                                    ELSE b.dirs]
    IN  IF ok
        THEN [tried EXCEPT
                !.downloaded_paths = Append(b.downloaded_paths, b.all_novels[i])]
        ELSE [tried EXCEPT !.pc = "raised",
                           !.download_dir = RestoreDir(b.download_dir)]

\* One iteration of the for loop (downloader.py:223-238, 336-351, 444-459,
\* 676-690): download_novel asks /v2/novel/detail for the item
\* (downloader.py:60) and returns the path of the file written under
\* download_dir, or raises and the except clause logs it; download_series
\* keeps no failed count.
ItemStep(b, ok) ==
    LET i == Len(b.attempts) + 1
        tried == [b EXCEPT !.attempts = Append(b.attempts, b.all_novels[i]),
                           !.outcomes = Append(b.outcomes, ok),
                           !.details = Append(b.details, b.all_novels[i]),
                           !.dirs = IF ok THEN Append(b.dirs, b.download_dir)
                                    ELSE b.dirs]
    IN  IF ok
        THEN [tried EXCEPT
                !.downloaded_paths = Append(b.downloaded_paths, b.all_novels[i])]
        ELSE IF b.cmd \in PagedCommands
             THEN [tried EXCEPT !.failed_count = b.failed_count + 1]
             ELSE tried

InitBulk == InitText

\* The entry of a paged command (downloader.py:159-168, 263-275, 373-383):
\* the first statement uses the logger without testing it and raises
\* AttributeError when the module's logger is None
StartBulk ==
    /\ bulk.pc = "idle"
    /\ \E c \in PagedCommands, t \in Totals, l \in LimitChoices,
          o \in OffsetChoices :
         bulk' = IF ~logger
                 THEN [NoBulk EXCEPT !.pc = "raised", !.cmd = c]
                 ELSE [NoBulk EXCEPT !.pc = "listing", !.cmd = c, !.total = t,
                                     !.limit = l, !.offset = o,
                                     !.current_offset = o]
    /\ UNCHANGED <<authVars, ct, itemVars>>

\* download_series up to the membership (downloader.py:639-665): a failing
\* get_series_details or get_series_novels ends the command with an
\* exception (line 710), an empty membership returns [] (line 662)
StartSeries ==
    /\ bulk.pc = "idle"
    /\ \E details_ok \in BOOLEAN, members_ok \in BOOLEAN, n \in SeriesSizes :
       \E listing \in SeriesListings(n) :
         LET novels == get_series_novels(listing)
             b == [NoBulk EXCEPT !.cmd = "download_series", !.total = n]
         IN bulk' = IF ~details_ok
                    THEN [b EXCEPT !.pc = "raised"]
                    ELSE IF ~members_ok
                    THEN [b EXCEPT !.pc = "raised", !.member_calls = 1]
                    ELSE IF n = 0
                    THEN [b EXCEPT !.pc = "done", !.member_calls = 1]
                    ELSE [b EXCEPT !.pc = "listed", !.member_calls = 1,
                                   !.members = listing,
                                   !.all_novels =
                                       [i \in 1..Len(novels) |-> novels[i].id]]
    /\ UNCHANGED <<authVars, ct, itemVars>>

ListPage ==
    /\ bulk.pc = "listing"
    /\ Len(bulk.pages) < MaxCalls
    /\ \E raises \in BOOLEAN : bulk' = PageStep(bulk, raises)
    /\ UNCHANGED <<authVars, ct, itemVars>>

\* Between the loops (downloader.py:218-222, 331-335, 439-443, 667-675):
\* the result list is created; download_series points download_dir at the
\* series directory.  Which downloads will fail is settled here.
BeginDownloads ==
    /\ bulk.pc = "listed"
    /\ \E f \in FailChoices :
         bulk' = [bulk EXCEPT !.pc = "downloading", !.fails = f,
                              !.downloaded_paths = <<>>, !.failed_count = 0,
                              !.download_dir =
                                  IF bulk.cmd = "download_series"
                                  THEN "series" ELSE "base"]
    /\ UNCHANGED <<authVars, ct, itemVars>>

DownloadItem ==
    /\ bulk.pc = "downloading"
    /\ Len(bulk.attempts) < Len(bulk.all_novels)
    /\ bulk' = ItemStep(bulk, (Len(bulk.attempts) + 1) \notin bulk.fails)
    /\ UNCHANGED <<authVars, ct, itemVars>>

\* The loop is through (downloader.py:240-242, 353-355, 461-463, 692-703):
\* the paths are returned.  download_series first builds its index
\* (lines 712-800): get_novel_detail is called for every member (line 722)
\* and the file is written, an error being swallowed (line 797); then the
\* finally clause restores download_dir.
FinishBulk ==
    /\ bulk.pc = "downloading"
    /\ Len(bulk.attempts) = Len(bulk.all_novels)
    /\ \E index_ok \in BOOLEAN :
         bulk' = IF bulk.cmd = "download_series"
                 THEN [bulk EXCEPT !.pc = "done",
                                   !.details = bulk.details \o bulk.all_novels,
                                   !.index_written = index_ok,
                                   !.download_dir = RestoreDir(bulk.download_dir)]
                 ELSE [bulk EXCEPT !.pc = "done"]
    /\ UNCHANGED <<authVars, ct, itemVars>>

NextBulk ==
    \/ StartBulk
    \/ StartSeries
    \/ ListPage
    \/ BeginDownloads
    \/ DownloadItem
    \/ FinishBulk

\* The while loop is straight-line code that runs on once entered
SpecBulk == InitBulk /\ [][NextBulk]_vars /\ WF_vars(ListPage)

\* ------------------------------------------------ single-item downloads
\* PixivNovelDownloader.__init__ (novel_downloader.py:42-43)
max_retries == 3
retry_delay == 2

\* What one call of PixivAPI.get_novel_text hands to its caller: it raises,
\* or returns {"novel_text": {"text": text}} with the text the two endpoints
\* led to (the basic endpoint answers and those whose content is no string)
ItemOutcomes ==
    BasicOutcomes \cup {o \in EndpointOutcomes : o.content.kind # "str"}
TextAnswers ==
    {[raised |-> g.raised, text |-> g.text] :
        g \in {get_novel_text(a, p, q, l) :
                  a \in BOOLEAN, p \in ItemOutcomes,
                  q \in ItemOutcomes, l \in BOOLEAN}}
NoAnswer == [raised |-> TRUE, text |-> EmptyStr]

\* open(path, "w") followed by the write (downloader.py:495-496, 517-518):
\* open raising leaves the file as it was, the write raising leaves the
\* truncated file behind
WriteOutcomes == {"ok", "open_fails", "write_fails"}
WriteFile(old, new, w) ==
    IF w = "ok" THEN new ELSE IF w = "open_fails" THEN old ELSE Partial
WriteCache(old, w) ==
    IF w = "ok" THEN "written" ELSE IF w = "open_fails" THEN old ELSE "partial"

SkipExistingNever(exists, overwrite) == FALSE

\* downloader.py:504: the text file exists and overwrite is off
SkipExisting(exists, overwrite) == exists /\ ~overwrite

\* NovelDownloader._save_novel (downloader.py:465-526) on the disk f: the
\* cache JSON is written first and a failure there is only logged
\* (494-501); an existing text file is returned untouched when overwrite is
\* off (504-507); otherwise the formatted record is written and a failure
\* is logged and raised again (516-524).
save_novel(f, id, text, overwrite, jw, tw) ==
    LET cached == [f EXCEPT ![id].cache = WriteCache(@, jw)]
    IN  IF SkipExisting(f[id].txt # NoFile, overwrite)
        THEN [files |-> cached, raised |-> FALSE, wrote |-> "none"]
        ELSE [files |-> [cached EXCEPT ![id].txt = WriteFile(@, text, tw)],
              raised |-> tw # "ok", wrote |-> tw]

\* NovelDownloader.download_novel (downloader.py:44-144): get_novel_detail
\* (60) and get_novel_text (66) raise out of the call; len(text) at line 80
\* raises for a null text; the record is built with the text, empty or not,
\* and handed to _save_novel (131); every exception leaves as Exception
\* (139-144).
DownloadNovel ==
    /\ pnd.pc = "idle"
    /\ \E id \in ItemIds, overwrite \in BOOLEAN, detail_ok \in BOOLEAN :
       \E ans \in IF detail_ok THEN TextAnswers ELSE {NoAnswer} :
         LET built == detail_ok /\ ~ans.raised /\ HasLen(ans.text)
             writes == built /\ ~SkipExisting(files[id].txt # NoFile, overwrite)
         IN \E jw \in IF built THEN WriteOutcomes ELSE {"none"} :
            \E tw \in IF writes THEN WriteOutcomes ELSE {"none"} :
              LET r == save_novel(files, id, ans.text, overwrite, jw, tw)
              IN /\ files' = IF built THEN r.files ELSE files
                 /\ lastSave' = [called |-> TRUE, id |-> id,
                                 overwrite |-> overwrite,
                                 detail_ok |-> detail_ok,
                                 text_raised |-> detail_ok /\ ans.raised,
                                 text |-> ans.text,
                                 json_write |-> jw,
                                 txt_write |-> IF built THEN r.wrote ELSE "none",
                                 raised |-> ~built \/ r.raised,
                                 returned |-> built /\ ~r.raised,
                                 before |-> files]
    /\ UNCHANGED <<authVars, ct, bulk, pnd>>

WaitTimeFlat(attempt) == retry_delay

\* novel_downloader.py:159: wait_time = self.retry_delay * attempt
WaitTime(attempt) == retry_delay * attempt

\* PixivNovelDownloader.download_novel up to the retry loop
\* (novel_downloader.py:59-63): get_novel_info (93-116) raises out of the
\* call
PndStart ==
    /\ pnd.pc = "idle"
    /\ ~lastSave.called
    /\ \E id \in ItemIds, info_ok \in BOOLEAN :
         pnd' = [NoPnd EXCEPT !.pc = IF info_ok THEN "content" ELSE "raised",
                              !.id = id,
                              !.attempt = IF info_ok THEN 1 ELSE 0]
    /\ UNCHANGED <<authVars, ct, bulk, files, lastSave>>

\* One pass of the loop of get_novel_content (novel_downloader.py:129-166):
\* get_novel_text raising is caught at 154; before the last attempt the
\* loop sleeps and goes on (158-162), at the last it raises (163-166).  An
\* answer always holds a novel_text object, so the test at 137 lets it
\* through and its text is returned (142-152).
PndAttempt ==
    /\ pnd.pc = "content"
    /\ pnd.attempt \in 1..max_retries
    /\ \E ans \in TextAnswers :
         IF ans.raised
         THEN pnd' = [pnd EXCEPT
                !.tries = Append(@, "failed"),
                !.waits = IF pnd.attempt < max_retries
                          THEN Append(@, WaitTime(pnd.attempt)) ELSE @,
                !.attempt = IF pnd.attempt < max_retries THEN @ + 1 ELSE @,
                !.pc = IF pnd.attempt < max_retries THEN "content"
                       ELSE "raised"]
         ELSE pnd' = [pnd EXCEPT !.tries = Append(@, "returned"),
                                 !.content = ans.text,
                                 !.pc = "got"]
    /\ UNCHANGED <<authVars, ct, bulk, files, lastSave>>

\* The rest of PixivNovelDownloader.download_novel
\* (novel_downloader.py:67-91): a falsy content raises (69-73); otherwise
\* the output file is written and a failure there raises (168-191, 193-289)
PndFinish ==
    /\ pnd.pc = "got"
    /\ IF pnd.content.s = <<>>
       THEN pnd' = [pnd EXCEPT !.pc = "raised"]
       ELSE \E w \in WriteOutcomes :
              pnd' = [pnd EXCEPT !.pc = IF w = "ok" THEN "done" ELSE "raised",
                                 !.write = w]
    /\ UNCHANGED <<authVars, ct, bulk, files, lastSave>>

\* The same start as the text-fetch specification; the module's logger is
\* the None that the import bound (utils.py)
InitItem == InitText /\ ~logger

NextItem ==
    \/ DownloadNovel
    \/ PndStart
    \/ PndAttempt
    \/ PndFinish

SpecItem == InitItem /\ [][NextItem]_vars

\* ------------------------------------------------------------- properties
LastReq == reqLog[Len(reqLog)]
OkRequests == {i \in 1..Len(reqLog) : reqLog[i].ok}
LastOk == CHOOSE i \in OkRequests : \A j \in OkRequests : j <= i
Requested(name) == \E i \in 1..Len(lastOp.calls) : lastOp.calls[i] = name

\* C1: ensure_auth sends a refresh exactly when no access token is held or the
\* time of the call is at or past token_expiry_time (the boundary included);
\* in every other state it sends none and returns True.
C1_RefreshExactlyWhenStale ==
    lastEnsure.called =>
        /\ lastEnsure.refreshed <=>
              (lastEnsure.tok_none \/ lastEnsure.at >= lastEnsure.expiry)
        /\ ~lastEnsure.refreshed => lastEnsure.ret

\* a token was held and the call came exactly at its recorded expiry
C1_Witness ==
    /\ lastEnsure.called
    /\ ~lastEnsure.tok_none
    /\ lastEnsure.at = lastEnsure.expiry
    /\ lastEnsure.refreshed

\* C2: while the time is before the expiry recorded by the latest successful
\* refresh, the calls made from that refresh on have sent one refresh request
\* in total, the successful one.
C2_OneRefreshBeforeExpiry ==
    (/\ OkRequests # {}
     /\ expiry_src = LastOk
     /\ now < auth.token_expiry_time)
    => Len(reqLog) - LastOk + 1 <= 1

\* after a successful refresh a later call found the token still valid
C2_Witness ==
    /\ OkRequests # {}
    /\ expiry_src = LastOk
    /\ now < auth.token_expiry_time
    /\ lastEnsure.called
    /\ ~lastEnsure.refreshed
    /\ lastEnsure.at > 0

\* C3: access_token and token_expiry_time are both unset, or both set by the
\* same token response.
C3_TokenAndExpiryFromSameResponse ==
    \/ auth.access_token = None /\ expiry_src = 0
    \/ auth.access_token # None /\ expiry_src = auth.access_token

\* C4: an operation that needs authentication raises when its refresh fails.
C4_FailedRefreshRaises ==
    (/\ lastOp.op \in {"get_auth_headers", "api_init", "get_novel_text"}
                      \cup AppApiOps
     /\ lastOp.refresh_failed)
    => lastOp.raised

\* C5: after a failed refresh the access token is unset and the stored
\* headers no longer carry the Bearer value of the token held before it.
C5_FailedRefreshDiscardsToken ==
    (Len(reqLog) > 0 /\ ~LastReq.ok) =>
        /\ auth.access_token = None
        /\ LastReq.tok # None => auth.Authorization # LastReq.tok

\* C6: no refresh request carries a refresh token with which an earlier
\* refresh request of the run failed.
C6_FailedRefreshNotRetried ==
    \A i, j \in 1..Len(reqLog) :
        (i < j /\ ~reqLog[i].ok) => reqLog[j].rt # reqLog[i].rt

\* C7: a successful refresh at time t with lifetime expires_in records
\* token_expiry_time = t + expires_in - 300, and a call of ensure_auth that
\* returns True without refreshing happens more than 300 seconds before
\* t + expires_in.
C7_SafetyMargin ==
    /\ (lastEnsure.called /\ lastEnsure.refreshed /\ lastEnsure.ret)
          => auth.token_expiry_time = expiry_plat - 300
    /\ (lastEnsure.called /\ ~lastEnsure.refreshed)
          => lastEnsure.at + 300 < expiry_plat

\* a call after time has passed found the token valid without refreshing
C7_Witness ==
    /\ lastEnsure.called
    /\ ~lastEnsure.refreshed
    /\ lastEnsure.ret
    /\ lastEnsure.at >= 1

\* C8: every refresh request carries the refresh token of the latest
\* successful refresh before it (the configured token when there is none),
\* and after a successful refresh the stored refresh token is the new one.
C8_RefreshTokenRotates ==
    /\ \A j \in 1..Len(reqLog) :
          LET before == {i \in OkRequests : i < j}
          IN reqLog[j].rt = IF before = {} THEN ConfiguredToken
                            ELSE CHOOSE i \in before : \A k \in before : k <= i
    /\ (Len(reqLog) > 0 /\ LastReq.ok) => auth.refresh_token = Len(reqLog)

\* An endpoint yields content when its envelope has error = false and a
\* body holding a content member that is not the empty string.
YieldsContent(j) ==
    /\ j.kind = "json" /\ j.is_object /\ j.error = "false"
    /\ j.body = "object" /\ j.has_content
    /\ j.content # EmptyStr

\* C9: with valid authentication get_novel_text does not raise, returns a
\* result with a text field, and the text is "" when neither endpoint
\* yields content.
C9_TextFetchNeverRaises ==
    (lastOp.op = "get_novel_text" /\ Requested("primary")) =>
        /\ ~lastOp.raised
        /\ lastOp.has_text
        /\ (~YieldsContent(lastOp.primary) /\ ~YieldsContent(lastOp.secondary))
              => lastOp.text = EmptyStr

\* The primary endpoint yields usable text: non-empty string content.
PrimaryHasText ==
    /\ YieldsContent(lastOp.primary)
    /\ lastOp.primary.content.kind = "str"

\* C10: the content-only endpoint is requested only after the primary
\* endpoint was requested and yielded no usable text; it is not requested
\* when the primary yields non-empty content.
C10_SecondaryOnlyAfterPrimary ==
    lastOp.op = "get_novel_text" =>
        /\ \A i \in 1..Len(lastOp.calls) :
              lastOp.calls[i] = "secondary" =>
                  /\ \E k \in 1..(i - 1) : lastOp.calls[k] = "primary"
                  /\ ~PrimaryHasText
        /\ PrimaryHasText => ~Requested("secondary")

\* the primary had no text and the content-only endpoint supplied it
C10_Witness ==
    /\ lastOp.op = "get_novel_text"
    /\ Requested("secondary")
    /\ YieldsContent(lastOp.secondary)
    /\ lastOp.text # EmptyStr

\* C11: get_novel_text returns empty text only after both the primary and
\* the content-only endpoint have been requested.
C11_EmptyTextOnlyAfterBothEndpoints ==
    (lastOp.op = "get_novel_text" /\ ~lastOp.raised /\ lastOp.text = EmptyStr)
    => (Requested("primary") /\ Requested("secondary"))

\* the marker occurs somewhere in s
HasMarker(s) ==
    \E i \in 1..(Len(s) - Len(NEWPAGE) + 1) :
        SubSeq(s, i, i + Len(NEWPAGE) - 1) = NEWPAGE

\* the content the returned text was taken from
TextSource ==
    IF PrimaryHasText THEN lastOp.primary.content
    ELSE lastOp.secondary.content

\* C13: a text returned by get_novel_text holds no "[newpage]" marker, and a
\* non-empty one is its source content with every marker replaced by a
\* double line break, whichever endpoint supplied it.
C13_ReturnedTextTransformed ==
    (lastOp.op = "get_novel_text" /\ ~lastOp.raised /\ lastOp.text.kind = "str")
    => /\ ~HasMarker(lastOp.text.s)
       /\ lastOp.text # EmptyStr
             => lastOp.text.s = ReplaceNewpage(TextSource.s)

\* the content-only endpoint supplied a text that held a marker
C13_Witness ==
    /\ lastOp.op = "get_novel_text"
    /\ Requested("secondary")
    /\ HasMarker(lastOp.secondary.content.s)
    /\ lastOp.text = Str(<<"a">> \o PAGEBREAK \o <<"b">>)

\* C14: a request to app-api carries the Bearer Authorization header and no
\* session cookie; a request to www.pixiv.net/ajax carries the PHPSESSID
\* cookie and no Bearer Authorization header.
C14_CredentialsPerHost ==
    /\ Requested("app-api")
          => (lastOp.bearer # None /\ lastOp.cookie = Absent)
    /\ (Requested("primary") \/ Requested("secondary") \/ Requested("www"))
          => (lastOp.www_cookie # Absent /\ lastOp.www_bearer = None)

\* C12: clean_text is idempotent: applied to its own result it returns that
\* result, for every text, adjacent and nested markers included.
C12_CleanTextIdempotent ==
    ct.stage = "twice" => ct.twice = ct.once

\* a marker nested in the two halves of a marker went through both passes
C12_Witness ==
    /\ ct.stage = "twice"
    /\ ct.input = Str(NewpageHead \o NEWPAGE \o NewpageTail)
    /\ ct.once = Str(NewpageHead \o PAGEBREAK \o NewpageTail)

\* the i-th listing call answered a page of fewer than page_limit items
ShortAt(i) == ~bulk.pages[i].raised /\ bulk.pages[i].size < page_limit
LoopLeft == bulk.pc \in {"listed", "downloading", "done"}
NoListingError == \A i \in 1..Len(bulk.pages) : ~bulk.pages[i].raised

\* C15 as stated: the first page of fewer than 30 items ends the collection:
\* no listing call follows it, and the collected list is the concatenation,
\* in order, of all items of the pages seen.
C15_ShortPageEndsCollection ==
    \A i \in 1..Len(bulk.pages) :
        ShortAt(i) => /\ i = Len(bulk.pages)
                      /\ bulk.pc # "listing"
                      /\ bulk.all_novels = bulk.seen

\* C15 amended: the first page of fewer than 30 items ends the collection and
\* no listing call follows it; the collected list is the concatenation of
\* the pages seen when no limit is set or the limit is not below their
\* number of items, and the first limit items of it otherwise.
C15_ShortPageEndsUnclipped ==
    \A i \in 1..Len(bulk.pages) :
        ShortAt(i) =>
            /\ i = Len(bulk.pages)
            /\ bulk.pc # "listing"
            /\ bulk.all_novels =
                  IF bulk.limit = NoLimit \/ bulk.limit >= Len(bulk.seen)
                  THEN bulk.seen
                  ELSE SubSeq(bulk.seen, 1, bulk.limit)

\* without a limit, a full page was followed by a page of 15 items
C15_Witness ==
    /\ bulk.limit = NoLimit
    /\ Len(bulk.pages) = 2
    /\ ShortAt(2)
    /\ bulk.pages[2].size = 15
    /\ Len(bulk.all_novels) = 45

\* items the listing holds from the starting offset on
Available ==
    IF bulk.total > bulk.offset THEN bulk.total - bulk.offset ELSE 0

\* C16: with a limit not above the number of items available from the
\* starting offset and no listing error, the loop collects the first limit
\* items of the listing in order; a listing call whose page was clipped to
\* the limit is the last one; 45 items with limit 40 give listing calls at
\* offsets 0 and 30 and 40 collected items.
C16_LimitCollectsExactly ==
    /\ (/\ LoopLeft /\ bulk.cmd \in PagedCommands /\ NoListingError
         /\ bulk.limit # NoLimit /\ bulk.limit <= Available)
        => /\ bulk.all_novels = [i \in 1..bulk.limit |-> bulk.offset + i]
           /\ (bulk.total = 45 /\ bulk.limit = 40 /\ bulk.offset = 0)
                 => /\ Len(bulk.pages) = 2
                    /\ bulk.pages[1].offset = 0
                    /\ bulk.pages[2].offset = 30
    /\ \A i \in 1..Len(bulk.pages) :
          bulk.pages[i].clipped => (i = Len(bulk.pages) /\ bulk.pc # "listing")

\* 45 items, limit 40: the second page was clipped from 15 items to 10
C16_Witness ==
    /\ LoopLeft
    /\ bulk.total = 45 /\ bulk.limit = 40 /\ bulk.offset = 0
    /\ Len(bulk.pages) = 2
    /\ bulk.pages[2].clipped
    /\ bulk.pages[2].appended = 10
    /\ Len(bulk.all_novels) = 40

\* C17: a pagination loop that has been entered is left, for every listing
\* size, starting offset and limit.
C17_PaginationTerminates ==
    (bulk.pc = "listing") ~> (bulk.pc # "listing")

\* the loop was left after three listing calls
C17_Witness ==
    /\ LoopLeft
    /\ bulk.cmd \in PagedCommands
    /\ Len(bulk.pages) = 3

\* C18: from one listing call to the next the offset grows by the number of
\* items appended, which is at least 1, and the ranges [offset, offset+30)
\* of successive calls do not overlap.
C18_CursorStrictlyIncreases ==
    \A i \in 1..(Len(bulk.pages) - 1) :
        LET a == bulk.pages[i]
            b == bulk.pages[i + 1]
        IN /\ b.offset > a.offset
           /\ b.offset - a.offset = a.appended
           /\ a.appended >= 1
           /\ a.offset + page_limit <= b.offset

\* three listing calls were made from a starting offset that is not 0
C18_Witness ==
    /\ Len(bulk.pages) = 3
    /\ bulk.pages[1].offset = 1
    /\ bulk.pages[3].offset = 61

\* C19: after a listing call raised no further listing call is made, the
\* items collected before it are kept, the command does not raise, and on
\* completion exactly those items have been handed to download_novel.
C19_ListingErrorKeepsItems ==
    \A i \in 1..Len(bulk.pages) :
        bulk.pages[i].raised =>
            /\ i = Len(bulk.pages)
            /\ LoopLeft
            /\ bulk.all_novels = bulk.kept
            /\ bulk.kept = bulk.seen
            /\ bulk.attempts = SubSeq(bulk.kept, 1, Len(bulk.attempts))
            /\ bulk.pc = "done" => bulk.attempts = bulk.kept

\* the second listing call raised and the 30 items of the first page were
\* downloaded
C19_Witness ==
    /\ Len(bulk.pages) = 2
    /\ bulk.pages[2].raised
    /\ Len(bulk.kept) = 30
    /\ bulk.pc = "done"
    /\ bulk.attempts = bulk.kept

FailedAttempts ==
    Cardinality({i \in 1..Len(bulk.outcomes) : ~bulk.outcomes[i]})

\* C20: a failing download does not end the batch: the items are handed to
\* download_novel once each in collected order, and on completion the
\* number of paths plus the number of failures is the number of collected
\* items; one failure among 10 items gives 9 paths and failed count 1.
C20_ItemFailureDoesNotAbort ==
    /\ bulk.attempts = SubSeq(bulk.all_novels, 1, Len(bulk.attempts))
    /\ bulk.attempts # <<>> => bulk.pc \in {"downloading", "done"}
    /\ bulk.pc = "done" =>
          /\ bulk.attempts = bulk.all_novels
          /\ Len(bulk.downloaded_paths) + FailedAttempts = Len(bulk.all_novels)
          /\ bulk.cmd \in PagedCommands => bulk.failed_count = FailedAttempts
          /\ (Len(bulk.all_novels) = 10 /\ FailedAttempts = 1)
                => Len(bulk.downloaded_paths) = 9

\* a batch of 10 items of which the second failed has completed
C20_Witness ==
    /\ bulk.pc = "done"
    /\ Len(bulk.all_novels) = 10
    /\ bulk.outcomes[2] = FALSE
    /\ FailedAttempts = 1
    /\ Len(bulk.downloaded_paths) = 9
    /\ bulk.failed_count = 1

\* C24: a randomized sleep lies between any two consecutive remote calls of
\* an operation (token refresh, app-api request, primary and content-only
\* endpoint): no two requests are sent back to back.
C24_SleepBetweenRemoteCalls ==
    \A i \in 1..(Len(lastOp.calls) - 1) :
        lastOp.calls[i] = "sleep" \/ lastOp.calls[i + 1] = "sleep"

\* C28: when get_auth_headers returns, the Authorization value of the
\* returned headers is the Bearer value of the stored access token.
C28_HeadersCarryStoredToken ==
    (lastOp.op = "get_auth_headers" /\ ~lastOp.raised)
    => (lastOp.bearer # None /\ lastOp.bearer = auth.access_token)

\* the order index of the member with the given id
OrderOf(id) ==
    LET e == CHOOSE e \in {bulk.members[i] : i \in 1..Len(bulk.members)} :
                 e.id = id
    IN e.order

\* C21: download_series hands the members to download_novel in ascending
\* order of their order index, whatever the order of the listing; on
\* completion every listed member has been handed over.
C21_SeriesDownloadedInOrder ==
    bulk.cmd = "download_series" =>
        /\ \A i, j \in 1..Len(bulk.attempts) :
              i < j => OrderOf(bulk.attempts[i]) < OrderOf(bulk.attempts[j])
        /\ bulk.pc = "done" => Len(bulk.attempts) = Len(bulk.members)

\* the listing came with order indices 3, 1, 2
C21_Witness ==
    /\ bulk.cmd = "download_series"
    /\ bulk.pc = "done"
    /\ Len(bulk.members) = 3
    /\ bulk.members[1].order = 3
    /\ bulk.members[2].order = 1
    /\ bulk.members[3].order = 2
    /\ bulk.attempts = <<ItemId(1), ItemId(2), ItemId(3)>>

\* C22: download_series has handed every member of the series to
\* download_novel when it completes, also for a series that the membership
\* endpoint does not answer in one request.
C22_SeriesMembershipExhausted ==
    (bulk.cmd = "download_series" /\ bulk.pc = "done")
    => Len(bulk.attempts) = bulk.total

\* C25: when a download command completes, /v2/novel/detail has been
\* queried exactly once for each of its items.
C25_DetailQueriedOncePerItem ==
    (bulk.cmd # "none" /\ bulk.pc = "done") =>
        \A i \in 1..Len(bulk.all_novels) :
            Cardinality({k \in 1..Len(bulk.details) :
                            bulk.details[k] = bulk.all_novels[i]}) = 1

\* C27: download_series ends with download_dir as it was before the call,
\* on every exit path, and every file it wrote lies under the series
\* directory.
C27_SeriesRestoresDownloadDir ==
    bulk.cmd = "download_series" =>
        /\ bulk.pc \in {"done", "raised"} => bulk.download_dir = "base"
        /\ \A i \in 1..Len(bulk.dirs) : bulk.dirs[i] = "series"

\* a series was downloaded with one member failing and the index not written
C27_Witness ==
    /\ bulk.cmd = "download_series"
    /\ bulk.pc = "done"
    /\ FailedAttempts = 1
    /\ Len(bulk.dirs) >= 1
    /\ ~bulk.index_written
    /\ bulk.download_dir = "base"

\* ------------------------------------------------ single-item downloads
\* The record was built and handed to _save_novel (downloader.py:131)
Saved ==
    /\ lastSave.called
    /\ lastSave.detail_ok
    /\ ~lastSave.text_raised
    /\ HasLen(lastSave.text)

WriteFailed(w) == w \in {"open_fails", "write_fails"}

\* C23: an empty body text never makes a single-item download raise: when
\* the text fetched is the empty string and writing the output does not
\* fail, NovelDownloader.download_novel and
\* PixivNovelDownloader.download_novel both write the output file and
\* return to the caller.
C23_EmptyTextNeverRaises ==
    /\ (Saved /\ lastSave.text = EmptyStr /\ ~WriteFailed(lastSave.txt_write))
          => /\ ~lastSave.raised
             /\ lastSave.returned
             /\ files[lastSave.id].txt # NoFile
    /\ (/\ pnd.pc \in {"done", "raised"}
        /\ pnd.tries # <<>>
        /\ pnd.tries[Len(pnd.tries)] = "returned"
        /\ pnd.content = EmptyStr
        /\ ~WriteFailed(pnd.write))
          => pnd.pc = "done" /\ pnd.write = "ok"

\* C26: a failure to write an item's text file or its cache JSON leaves
\* that item's download_novel call as an exception (which the batch counts
\* as a failed item), and the files of the other items are as they were.
C26_WriteFailurePropagates ==
    lastSave.called =>
        /\ (WriteFailed(lastSave.txt_write) \/ WriteFailed(lastSave.json_write))
              => lastSave.raised /\ ~lastSave.returned
        /\ \A j \in ItemIds \ {lastSave.id} : files[j] = lastSave.before[j]

\* C29: get_novel_content calls get_novel_text at most max_retries = 3
\* times; every call before the last one made has failed (it returns at the
\* first call that does not fail); it has slept 2 seconds after the first
\* failed call and 4 after the second; after the third failed call it
\* raises with no further sleep.
C29_RetryDiscipline ==
    LET n == Len(pnd.tries)
        failed == Cardinality({i \in 1..n : pnd.tries[i] = "failed"})
    IN  /\ n <= 3
        /\ \A i \in 1..(n - 1) : pnd.tries[i] = "failed"
        /\ Len(pnd.waits) = IF failed < 3 THEN failed ELSE 2
        /\ \A i \in 1..Len(pnd.waits) : pnd.waits[i] = <<2, 4>>[i]
        /\ failed = 3 => pnd.pc = "raised"
        /\ (pnd.pc = "content") => (failed = n /\ n < 3 /\ pnd.attempt = n + 1)
        /\ (n > 0 /\ failed < n) => pnd.pc \in {"got", "done", "raised"}

C29_Witness ==
    /\ pnd.pc = "raised"
    /\ pnd.tries = <<"failed", "failed", "failed">>
    /\ pnd.waits = <<2, 4>>

\* C30: with overwrite off, _save_novel leaves an existing text file as it
\* is and returns its path as a successful download; with overwrite on, a
\* write that succeeds replaces the file's content by the new record.
C30_OverwriteOffKeepsFile ==
    lastSave.called =>
        LET id == lastSave.id
            existed == lastSave.before[id].txt # NoFile
        IN  /\ (~lastSave.overwrite /\ existed)
                  => files[id].txt = lastSave.before[id].txt
            /\ (Saved /\ ~lastSave.overwrite /\ existed)
                  => lastSave.returned /\ ~lastSave.raised
            /\ (Saved /\ lastSave.overwrite /\ lastSave.txt_write = "ok")
                  => files[id].txt = lastSave.text

C30_Witness ==
    /\ Saved
    /\ ~lastSave.overwrite
    /\ lastSave.before[lastSave.id].txt = EmptyStr
    /\ lastSave.text = Str(<<"a">>)
    /\ lastSave.returned
    /\ files[lastSave.id].txt = EmptyStr
====
